---- MODULE Spec2Model ----
(***************************************************************************)
(* Deep research agent: the session state machine of deep_research.py      *)
(* (handle_submit) around the research pipeline of research_manager.py     *)
(* (ResearchManager.run, _perform_searches, _search and the reasoning,     *)
(* search and delivery calls they make).                                   *)
(*                                                                         *)
(* One session is modelled.  Every await of an external call and every     *)
(* yield of the two async generators is a suspension point; an action is   *)
(* the code executed between two suspension points.                        *)
(***************************************************************************)
EXTENDS Integers, Sequences, FiniteSets, TLC

\* ------------------------------------------------------------------ bounds
\* messages that are not blank in one behaviour
MaxSubmits == 3
\* search items in one plan returned by a planner agent
MaxPlan == 2
\* search items planned in one behaviour, over all plans
MaxSearches == 2
\* messages that are not blank in one behaviour with overlapping invocations
MaxOverlapSubmits == 4
\* search items planned in one behaviour with overlapping invocations
MaxOverlapSearches == 1
\* search results in the list a prompt view is built from
MaxViewResults == 9
\* messages that are not blank in one behaviour checked for progress
MaxFairSubmits == 2
\* search items planned in one behaviour checked for progress
MaxFairSearches == 1

\* ------------------------------------------------------- program constants
MAX_RESEARCH_ITERATIONS == 3
\* search_results[:8] and search_summary[:5000] in _evaluate_report
EVALUATE_VIEW_RESULTS == 8
EVALUATE_VIEW_CHARS == 5000
\* existing_results[:5] and existing_summary[:3000] in _plan_refinement_searches
REFINEMENT_VIEW_RESULTS == 5
REFINEMENT_VIEW_CHARS == 3000
\* the separator "\n---\n" of the joined summaries and its length
Separator == <<"\n", "-", "-", "-", "\n">>
SEPARATOR_CHARS == Len(Separator)

\* The event listeners wired to handle_submit (send_btn.click and
\* msg_input.submit): each runs at most one invocation at a time.
Handlers == {1, 2}

\* ------------------------------------------------------------------ strings
\* A Python str is a sequence of one-character strings.
Whitespace == {" ", "\n"}

LowerChar(c) ==
    CASE c = "S" -> "s"
      [] c = "K" -> "k"
      [] c = "I" -> "i"
      [] c = "P" -> "p"
      [] OTHER -> c

\* str.lower()
Lower(s) == [i \in 1..Len(s) |-> LowerChar(s[i])]

RECURSIVE LStrip(_)
LStrip(s) == IF s # <<>> /\ Head(s) \in Whitespace THEN LStrip(Tail(s)) ELSE s

RECURSIVE RStrip(_)
RStrip(s) ==
    IF s # <<>> /\ s[Len(s)] \in Whitespace
    THEN RStrip(SubSeq(s, 1, Len(s) - 1))
    ELSE s

\* str.strip()
Strip(s) == RStrip(LStrip(s))

\* The literal "skip" of deep_research.py line 49
SkipLiteral == <<"s", "k", "i", "p">>

\* The messages a user submits: empty, whitespace only, two spellings of
\* skip, and a free text.
Messages ==
    { <<>>,
      <<" ", "\n">>,
      <<" ", "S", "k", "I", "p", "\n">>,
      <<"a", " ", "b">> }

\* The messages submitted while invocations overlap: a blank one and a text.
OverlapMessages == { <<" ", "\n">>, <<"a", " ", "b">> }

\* state.get("query") before any query was stored
NoQuery == <<"<unset>">>

\* the f-string of lines 63-64 without its first line
EnrichedQueryAnswersOnly(query, clarification_answers) ==
    IF clarification_answers # <<>>
    THEN <<"Additional context from user:", "\n">> \o clarification_answers
    ELSE query

\* f"Original query: {query}\n\nAdditional context from user:\n{answers}"
EnrichedQuery(query, clarification_answers) ==
    IF clarification_answers # <<>>
    THEN <<"Original query: ">> \o query
         \o <<"\n", "\n", "Additional context from user:", "\n">>
         \o clarification_answers
    ELSE query

\* ------------------------------------------------------------------ values
NoneEvaluation == [iteration |-> 0, is_acceptable |-> FALSE]
NoneReport == [draft |-> 0]
\* the None returned by _search on failure
NoneResult == [batch |-> 0, item |-> 0]

StatusEvent(content, n) == [type |-> "status", content |-> content, n |-> n]
ReportEvent(report) == [type |-> "report", content |-> "markdown_report", n |-> report.draft]
FollowUpEvent(report) == [type |-> "follow_up", content |-> "follow_up_questions", n |-> report.draft]

\* One entry of the log of external calls of a run.
Call(kind, it, n, results, prev, rep) ==
    [kind |-> kind, iteration |-> it, n |-> n, results |-> results,
     previous_evaluation |-> prev, report |-> rep]

\* no summary text has been built
NoView == [kind |-> "none", segments |-> <<>>]

\* One message of the chatbot; its text is rendering and is left out.
ChatEntry(role, kind) == [role |-> role, kind |-> kind]

\* _build_progress_display: the progress text, whose wording is left open
BuildProgressDisplay(status_messages) ==
    ChatEntry("assistant", "progress")

VARIABLES
    state,                  \* the session dict: phase, query, questions
    chat_history,           \* the chatbot's message list
    submits,                \* messages handled so far that were not blank
    planned,                \* search items planned so far
    pc,                     \* per handler: where its invocation is suspended
    user_message,           \* per handler: handle_submit's argument
    clarification_answers,  \* per handler: local of handle_submit
    status_messages,        \* per handler: local of handle_submit
    enriched_query,         \* per handler: local of run
    search_plan,            \* per handler: number of items of the plan in execution
    all_search_results,     \* per handler: local of run
    report,                 \* per handler: local of run
    previous_evaluation,    \* per handler: local of run
    evaluation,             \* per handler: local of run
    iteration,              \* per handler: loop variable of run
    batch,                  \* per handler: number of the search batch (0 initial)
    tasks,                  \* per handler: the tasks of _perform_searches
    completed,              \* per handler: finished tasks not yet taken by as_completed
    results,                \* per handler: local of _perform_searches
    events,                 \* per handler: the events run has yielded
    calls,                  \* per handler: the external calls run has made
    evaluations,            \* per handler: the evaluations _evaluate_report returned
    search_log,             \* per handler: the search invocations that finished
    prompt_view,            \* the summary text built for a prompt, when one was built
    failure                 \* per handler: the call that raised, "none" otherwise

vars == <<state, chat_history, submits, planned, pc, user_message, clarification_answers,
          status_messages, enriched_query, search_plan, all_search_results,
          report, previous_evaluation, evaluation, iteration, batch, tasks,
          completed, results, events, calls, evaluations, search_log,
          prompt_view, failure>>

\* the locals of handle_submit
hvars == <<user_message, clarification_answers, status_messages>>
\* the locals of run
rvars == <<enriched_query, search_plan, all_search_results, report,
           previous_evaluation, evaluation, iteration, batch>>
\* the locals of _perform_searches
svars == <<tasks, completed, results>>
\* what a run has received from its evaluator and search calls
lvars == <<evaluations, search_log, prompt_view>>

\* ------------------------------------------------------------------ helpers
Min(a, b) == IF a < b THEN a ELSE b

\* chat_history[-1] = entry
SetLast(history, entry) == [history EXCEPT ![Len(history)] = entry]

\* A handler whose invocation has ended keeps its locals until they are
\* discarded; nothing else runs in between (Release touches no shared state).
Ended == {"returned", "raised", "abandoned"}
NoEnded == \A g \in Handlers : pc[g] \notin Ended

\* The plan sizes a planner agent may return.
PlanSizes == 0 .. Min(MaxPlan, MaxSearches - planned)

\* The call is logged with the number of events run has yielded before it.
LogCall(h, c) ==
    calls' = [calls EXCEPT ![h] = Append(@,
                 [kind |-> c.kind, iteration |-> c.iteration, n |-> c.n,
                  results |-> c.results,
                  previous_evaluation |-> c.previous_evaluation,
                  report |-> c.report, at |-> Len(events[h])])]

Goto(h, label) == pc' = [pc EXCEPT ![h] = label]

\* An exception leaves run and handle_submit: nothing catches it.
Raise(h, what) ==
    /\ Goto(h, "raised")
    /\ failure' = [failure EXCEPT ![h] = what]

\* --------------------------------------------------------------------- Init
Init ==
    /\ state = [phase |-> "idle", query |-> NoQuery, questions |-> NoQuery]
    /\ chat_history = <<>>
    /\ submits = 0
    /\ planned = 0
    /\ pc = [h \in Handlers |-> "free"]
    /\ user_message = [h \in Handlers |-> <<>>]
    /\ clarification_answers = [h \in Handlers |-> <<>>]
    /\ status_messages = [h \in Handlers |-> <<>>]
    /\ enriched_query = [h \in Handlers |-> <<>>]
    /\ search_plan = [h \in Handlers |-> 0]
    /\ all_search_results = [h \in Handlers |-> <<>>]
    /\ report = [h \in Handlers |-> NoneReport]
    /\ previous_evaluation = [h \in Handlers |-> NoneEvaluation]
    /\ evaluation = [h \in Handlers |-> NoneEvaluation]
    /\ iteration = [h \in Handlers |-> 0]
    /\ batch = [h \in Handlers |-> 0]
    /\ tasks = [h \in Handlers |-> <<>>]
    /\ completed = [h \in Handlers |-> <<>>]
    /\ results = [h \in Handlers |-> <<>>]
    /\ events = [h \in Handlers |-> <<>>]
    /\ calls = [h \in Handlers |-> <<>>]
    /\ evaluations = [h \in Handlers |-> <<>>]
    /\ search_log = [h \in Handlers |-> <<>>]
    /\ prompt_view = NoView
    /\ failure = [h \in Handlers |-> "none"]

\* ------------------------------------------------------------ handle_submit
\* line 23 left out: the query is stored and the phase stays as it was
NewQueryKeepsPhase(h, m) ==
    /\ state' = [state EXCEPT !.query = m]
    /\ chat_history' = chat_history
            \o << ChatEntry("user", "message"),
                  ChatEntry("assistant", "thinking") >>
    /\ Goto(h, "L30")
    /\ UNCHANGED clarification_answers

\* lines 21-30: the idle branch up to its first yield
NewQuery(h, m) ==
    /\ state' = [state EXCEPT !.query = m, !.phase = "clarifying"]
    /\ chat_history' = chat_history
            \o << ChatEntry("user", "message"),
                  ChatEntry("assistant", "thinking") >>
    /\ Goto(h, "L30")
    /\ UNCHANGED clarification_answers

\* line 49 as user_message == "skip"
ClarificationAnswersExact(m) == IF m = SkipLiteral THEN <<>> ELSE m

\* lines 49-52: "skip" stands for no answers
ClarificationAnswers(m) == IF Lower(Strip(m)) = SkipLiteral THEN <<>> ELSE m

\* lines 45-59: the clarifying branch up to its first yield
StartResearch(h, m) ==
    /\ clarification_answers' = [clarification_answers EXCEPT ![h] = ClarificationAnswers(m)]
    /\ state' = [state EXCEPT !.phase = "researching"]
    /\ chat_history' = chat_history
            \o << ChatEntry("user", "message"),
                  ChatEntry("assistant", "starting") >>
    /\ Goto(h, "L59")

\* line 15 as "if not user_message"
IsBlankUnstripped(m) == m = <<>>

\* line 15: not user_message.strip()
IsBlank(m) == Strip(m) = <<>>

\* line 90 left out: a message in phase done is dropped
DoneBranchDrops(h, m) ==
    /\ Goto(h, "returned")
    /\ UNCHANGED <<state, chat_history, clarification_answers>>

\* lines 90-95: phase done is reset to idle and handle_submit calls itself
DoneBranch(h, m) == NewQuery(h, m)

\* handle_submit from its call to its first suspension
HandleSubmit(h, m) ==
    /\ NoEnded
    /\ pc[h] = "free"
    /\ submits' = IF IsBlank(m) THEN submits ELSE submits + 1
    /\ user_message' = [user_message EXCEPT ![h] = m]
    /\ IF IsBlank(m)
       THEN /\ Goto(h, "L16")
            /\ UNCHANGED <<state, chat_history, clarification_answers>>
       ELSE CASE state.phase = "idle" -> NewQuery(h, m)
              [] state.phase = "clarifying" -> StartResearch(h, m)
              [] state.phase = "done" -> DoneBranch(h, m)
              [] OTHER ->
                    /\ Goto(h, "returned")
                    /\ UNCHANGED <<state, chat_history, clarification_answers>>
    /\ UNCHANGED <<planned, status_messages, rvars, svars, lvars, events, calls, failure>>

\* line 17, and the end of the idle branch after line 43
Return(h) ==
    /\ NoEnded
    /\ pc[h] \in {"L16", "L43"}
    /\ Goto(h, "returned")
    /\ UNCHANGED <<state, chat_history, submits, planned, hvars, rvars, svars, lvars, events, calls, failure>>

\* line 33: manager.clarify(user_message) is called
Clarify(h) ==
    /\ NoEnded
    /\ pc[h] = "L30"
    /\ LogCall(h, Call("clarify", 0, 0, <<>>, NoneEvaluation, NoneReport))
    /\ Goto(h, "await_clarify")
    /\ UNCHANGED <<state, chat_history, submits, planned, hvars, rvars, svars, lvars, events, failure>>

\* lines 34-43: the questions are presented
ClarifyReturn(h) ==
    /\ NoEnded
    /\ pc[h] = "await_clarify"
    /\ chat_history' = SetLast(chat_history,
                               ChatEntry("assistant", "questions"))
    /\ state' = [state EXCEPT !.questions = user_message[h]]
    /\ Goto(h, "L43")
    /\ UNCHANGED <<submits, planned, hvars, rvars, svars, lvars, events, calls, failure>>

ClarifyRaise(h) ==
    /\ NoEnded
    /\ pc[h] = "await_clarify"
    /\ Raise(h, "clarify")
    /\ UNCHANGED <<state, chat_history, submits, planned, hvars, rvars, svars, lvars, events, calls>>

\* The locals of an ended invocation are discarded.
Release(h) ==
    /\ pc[h] \in Ended
    /\ Goto(h, "free")
    /\ user_message' = [user_message EXCEPT ![h] = <<>>]
    /\ clarification_answers' = [clarification_answers EXCEPT ![h] = <<>>]
    /\ status_messages' = [status_messages EXCEPT ![h] = <<>>]
    /\ enriched_query' = [enriched_query EXCEPT ![h] = <<>>]
    /\ search_plan' = [search_plan EXCEPT ![h] = 0]
    /\ all_search_results' = [all_search_results EXCEPT ![h] = <<>>]
    /\ report' = [report EXCEPT ![h] = NoneReport]
    /\ previous_evaluation' = [previous_evaluation EXCEPT ![h] = NoneEvaluation]
    /\ evaluation' = [evaluation EXCEPT ![h] = NoneEvaluation]
    /\ iteration' = [iteration EXCEPT ![h] = 0]
    /\ batch' = [batch EXCEPT ![h] = 0]
    /\ tasks' = [tasks EXCEPT ![h] = <<>>]
    /\ completed' = [completed EXCEPT ![h] = <<>>]
    /\ results' = [results EXCEPT ![h] = <<>>]
    /\ events' = [events EXCEPT ![h] = <<>>]
    /\ calls' = [calls EXCEPT ![h] = <<>>]
    /\ evaluations' = [evaluations EXCEPT ![h] = <<>>]
    /\ search_log' = [search_log EXCEPT ![h] = <<>>]
    /\ failure' = [failure EXCEPT ![h] = "none"]
    /\ UNCHANGED <<state, chat_history, submits, planned, prompt_view>>

\* line 87 left out: the phase set by line 73 stays
PhaseAfterKeepsDone(type, phase) ==
    CASE type = "report" -> "done"
      [] OTHER -> phase

\* lines 73 and 87: the phase after an event of run was shown
PhaseAfter(type, phase) ==
    CASE type = "report" -> "done"
      [] type = "follow_up" -> "idle"
      [] OTHER -> phase

\* lines 63-88: the body of the async for, for one event of run
HandleUpdate(h, update) ==
    /\ events' = [events EXCEPT ![h] = Append(@, update)]
    /\ IF update.type = "status"
       THEN /\ status_messages' = [status_messages EXCEPT ![h] = Append(@, update.content)]
            /\ chat_history' = SetLast(chat_history,
                    BuildProgressDisplay(Append(status_messages[h], update.content)))
            /\ UNCHANGED state
       ELSE IF update.type = "report"
       THEN /\ state' = [state EXCEPT !.phase = PhaseAfter("report", @)]
            /\ chat_history' = Append(chat_history,
                    ChatEntry("assistant", "report"))
            /\ UNCHANGED status_messages
       ELSE /\ chat_history' = Append(chat_history,
                    ChatEntry("assistant", "follow_up"))
            /\ state' = [state EXCEPT !.phase = PhaseAfter("follow_up", @)]
            /\ UNCHANGED status_messages
    /\ UNCHANGED <<submits, user_message, clarification_answers>>

\* the yield of lines 99-102 left out: the draft is evaluated unannounced
StatusWithoutDraft(h, content, n, label) ==
    /\ IF content = "Draft complete"
       THEN UNCHANGED <<state, chat_history, submits, hvars, events>>
       ELSE HandleUpdate(h, StatusEvent(content, n))
    /\ Goto(h, label)

\* run yields a status event and handle_submit shows it
Status(h, content, n, label) ==
    /\ HandleUpdate(h, StatusEvent(content, n))
    /\ Goto(h, label)

\* ---------------------------------------------------- ResearchManager.run
\* deep_research.py line 63 calls run with state["query"] and the answers;
\* lines 54-58: run yields the trace link.  The enriched query of lines 60-67
\* depends on these two arguments alone and is recorded here.
RunTrace(h) ==
    /\ NoEnded
    /\ pc[h] = "L59"
    /\ enriched_query' = [enriched_query EXCEPT
                             ![h] = EnrichedQuery(state.query, clarification_answers[h])]
    /\ Status(h, "Trace", 0, "R58")
    /\ UNCHANGED <<planned, search_plan, all_search_results, report, previous_evaluation,
                   evaluation, iteration, batch, svars, lvars, calls, failure>>

\* lines 60-70
RunPlanning(h) ==
    /\ NoEnded
    /\ pc[h] = "R58"
    /\ Status(h, "Planning research strategy", 0, "R70")
    /\ UNCHANGED <<planned, rvars, svars, lvars, calls, failure>>

\* line 71: _plan_searches is called
PlanSearches(h) ==
    /\ NoEnded
    /\ pc[h] = "R70"
    /\ LogCall(h, Call("plan", 0, 0, <<>>, NoneEvaluation, NoneReport))
    /\ Goto(h, "await_plan")
    /\ UNCHANGED <<state, chat_history, submits, planned, hvars, rvars, svars, lvars, events, failure>>

\* lines 72-76: the plan has n items
PlanReturn(h, n) ==
    /\ NoEnded
    /\ pc[h] = "await_plan"
    /\ search_plan' = [search_plan EXCEPT ![h] = n]
    /\ planned' = planned + n
    /\ Status(h, "Planned searches", n, "R73")
    /\ UNCHANGED <<enriched_query, all_search_results, report, previous_evaluation,
                   evaluation, iteration, batch, svars, lvars, calls, failure>>

PlanRaise(h) ==
    /\ NoEnded
    /\ pc[h] = "await_plan"
    /\ Raise(h, "plan")
    /\ UNCHANGED <<state, chat_history, submits, planned, hvars, rvars, svars, lvars, events, calls>>

\* line 79
RunExecuting(h) ==
    /\ NoEnded
    /\ pc[h] = "R73"
    /\ Status(h, "Executing searches in parallel", search_plan[h], "R79")
    /\ UNCHANGED <<planned, rvars, svars, lvars, calls, failure>>

\* ------------------------------------------- _perform_searches and _search
\* line 142 as an assignment: all_search_results = new_results
ExtendAssigns(all, new) == new

\* line 142 as all_search_results = new_results + all_search_results
ExtendInFront(all, new) == new \o all

\* line 142: all_search_results.extend(new_results)
Extend(all, new) == all \o new

\* line 143 left out: previous_evaluation keeps its value
PreviousAfterRefineKept(prev, ev) == prev

\* line 143: previous_evaluation = evaluation
PreviousAfterRefine(prev, ev) == ev

\* lines 80-84 and 141-148: what run does with the list _perform_searches returns
AfterSearches(h, returned) ==
    IF batch[h] = 0
    THEN /\ all_search_results' = [all_search_results EXCEPT ![h] = returned]
         /\ Status(h, "Initial search complete", Len(returned), "R81")
         /\ UNCHANGED previous_evaluation
    ELSE /\ all_search_results' = [all_search_results EXCEPT ![h] = Extend(@, returned)]
         /\ previous_evaluation' = [previous_evaluation EXCEPT
                                      ![h] = PreviousAfterRefine(@, evaluation[h])]
         /\ Status(h, "Now have total search results",
                   Len(Extend(all_search_results[h], returned)), "R145")

\* lines 196-202: the tasks are created; an empty plan returns at once
PerformSearches(h) ==
    /\ NoEnded
    /\ pc[h] \in {"R79", "R137"}
    /\ LogCall(h, Call("search_batch", iteration[h], search_plan[h],
                       <<>>, NoneEvaluation, NoneReport))
    /\ completed' = [completed EXCEPT ![h] = <<>>]
    /\ results' = [results EXCEPT ![h] = <<>>]
    /\ tasks' = [tasks EXCEPT ![h] = [i \in 1..search_plan[h] |-> "pending"]]
    /\ IF search_plan[h] = 0
       THEN AfterSearches(h, <<>>)
       ELSE /\ Goto(h, "searching")
            /\ UNCHANGED <<state, chat_history, submits, hvars, events,
                           all_search_results, previous_evaluation>>
    /\ UNCHANGED <<planned, enriched_query, search_plan, report, evaluation,
                   iteration, batch, lvars, failure>>

\* line 219 returning a text for the failure instead of None
SearchReturnsText(ok, b, i) == [batch |-> b + 1, item |-> i]

\* lines 211-219: what _search returns for item i of batch b
Search(ok, b, i) == IF ok THEN [batch |-> b + 1, item |-> i] ELSE NoneResult

\* one search task finishes, its Runner.run having returned or raised
SearchDone(h, i, ok) ==
    /\ NoEnded
    /\ pc[h] = "searching"
    /\ i \in DOMAIN tasks[h]
    /\ tasks[h][i] = "pending"
    /\ tasks' = [tasks EXCEPT ![h][i] = "done"]
    /\ completed' = [completed EXCEPT ![h] = Append(@, Search(ok, batch[h], i))]
    /\ search_log' = [search_log EXCEPT
                         ![h] = Append(@, [batch |-> batch[h] + 1, item |-> i, ok |-> ok])]
    /\ UNCHANGED <<state, chat_history, submits, planned, pc, hvars, rvars, results,
                   events, calls, evaluations, prompt_view, failure>>

\* line 204 left out: every awaited result is appended
IsNotNoneAlways(result) == TRUE

\* line 204
IsNotNone(result) == result # NoneResult

\* lines 203-206: results after the next completed task was awaited
Collect(collected, result) ==
    IF IsNotNone(result) THEN Append(collected, result) ELSE collected

\* the loop of line 203 left after the first finished task
BatchDoneAtFirst(h) == Len(completed[h]) >= 1

\* the loop of line 203 waiting for one task more than were created
BatchDoneOneMore(h) == Len(completed[h]) = 0

\* line 203: as_completed is exhausted when the task just awaited was the
\* last of the batch
BatchDone(h) ==
    Len(completed[h]) = 1 /\ \A i \in DOMAIN tasks[h] : tasks[h][i] = "done"

\* lines 202-209: as_completed hands over the next finished task; after the
\* last one _perform_searches returns
Gather(h) ==
    /\ NoEnded
    /\ pc[h] = "searching"
    /\ completed[h] # <<>>
    /\ completed' = [completed EXCEPT ![h] = Tail(@)]
    /\ results' = [results EXCEPT ![h] = Collect(@, Head(completed[h]))]
    /\ IF BatchDone(h)
       THEN AfterSearches(h, Collect(results[h], Head(completed[h])))
       ELSE UNCHANGED <<state, chat_history, submits, pc, hvars, events,
                        all_search_results, previous_evaluation>>
    /\ UNCHANGED <<planned, enriched_query, search_plan, report, evaluation,
                   iteration, batch, tasks, calls, lvars, failure>>

\* ------------------------------------------- the write-evaluate-refine loop
\* a range one too long: range(1, MAX_RESEARCH_ITERATIONS + 2)
InRangeOneMore(it) == it \in 1..(MAX_RESEARCH_ITERATIONS + 1)

\* line 90: range(1, MAX_RESEARCH_ITERATIONS + 1)
InRange(it) == it \in 1..MAX_RESEARCH_ITERATIONS

\* the loop has a next iteration: it starts, or has ended a body that did
\* not break and the range is not exhausted
LoopContinues(h) ==
    \/ pc[h] = "R81"
    \/ pc[h] \in {"R145", "R150"} /\ InRange(iteration[h] + 1)

\* the loop is over: line 120 broke out of it, or the range is exhausted
LoopOver(h) ==
    \/ pc[h] = "R119"
    \/ pc[h] \in {"R145", "R150"} /\ ~InRange(iteration[h] + 1)

\* lines 87-95 for the first iteration, lines 90-95 for the next ones
RunWriting(h) ==
    /\ NoEnded
    /\ LoopContinues(h)
    /\ IF pc[h] = "R81"
       THEN /\ report' = [report EXCEPT ![h] = NoneReport]
            /\ previous_evaluation' = [previous_evaluation EXCEPT ![h] = NoneEvaluation]
            /\ iteration' = [iteration EXCEPT ![h] = 1]
       ELSE /\ iteration' = [iteration EXCEPT ![h] = @ + 1]
            /\ UNCHANGED <<report, previous_evaluation>>
    /\ Status(h, "Writing report", iteration'[h], "R92")
    /\ UNCHANGED <<planned, enriched_query, search_plan, all_search_results, evaluation,
                   batch, svars, lvars, calls, failure>>

\* lines 96-98: _write_report is called
WriteReport(h) ==
    /\ NoEnded
    /\ pc[h] = "R92"
    /\ LogCall(h, Call("write", iteration[h], 0, all_search_results[h],
                       previous_evaluation[h], NoneReport))
    /\ Goto(h, "await_write")
    /\ UNCHANGED <<state, chat_history, submits, planned, hvars, rvars, svars, lvars, events, failure>>

\* lines 99-102: the draft replaces the report
WriteReturn(h) ==
    /\ NoEnded
    /\ pc[h] = "await_write"
    /\ report' = [report EXCEPT ![h] = [draft |-> iteration[h]]]
    /\ Status(h, "Draft complete", iteration[h], "R99")
    /\ UNCHANGED <<planned, enriched_query, search_plan, all_search_results,
                   previous_evaluation, evaluation, iteration, batch, svars,
                   lvars, calls, failure>>

WriteRaise(h) ==
    /\ NoEnded
    /\ pc[h] = "await_write"
    /\ Raise(h, "write")
    /\ UNCHANGED <<state, chat_history, submits, planned, hvars, rvars, svars, lvars, events, calls>>

\* line 105: _evaluate_report is called
EvaluateReport(h) ==
    /\ NoEnded
    /\ pc[h] = "R99"
    /\ LogCall(h, Call("evaluate", iteration[h], 0, all_search_results[h],
                       NoneEvaluation, report[h]))
    /\ Goto(h, "await_evaluate")
    /\ UNCHANGED <<state, chat_history, submits, planned, hvars, rvars, svars, lvars, events, failure>>

\* lines 106-116: the evaluation is shown
EvaluateReturn(h, acceptable) ==
    /\ NoEnded
    /\ pc[h] = "await_evaluate"
    /\ evaluation' = [evaluation EXCEPT
                         ![h] = [iteration |-> iteration[h], is_acceptable |-> acceptable]]
    /\ evaluations' = [evaluations EXCEPT ![h] = Append(@, evaluation'[h])]
    /\ Status(h, "Evaluation scores", iteration[h], "R113")
    /\ UNCHANGED <<planned, enriched_query, search_plan, all_search_results, report,
                   previous_evaluation, iteration, batch, svars, search_log,
                   prompt_view, calls, failure>>

EvaluateRaise(h) ==
    /\ NoEnded
    /\ pc[h] = "await_evaluate"
    /\ Raise(h, "evaluate")
    /\ UNCHANGED <<state, chat_history, submits, planned, hvars, rvars, svars, lvars, events, calls>>

\* the break of line 120 left out
VerdictNoBreak(is_acceptable, it) ==
    IF it < MAX_RESEARCH_ITERATIONS THEN "refine" ELSE "exhausted"

\* line 123 as iteration <= MAX_RESEARCH_ITERATIONS
VerdictRefinesLast(is_acceptable, it) ==
    IF is_acceptable THEN "accept"
    ELSE IF it <= MAX_RESEARCH_ITERATIONS THEN "refine"
    ELSE "exhausted"

\* lines 118 and 123 left out: every evaluation is followed by a refinement
VerdictAlwaysRefines(is_acceptable, it) == "refine"

\* lines 118-153: the branch taken after an evaluation
Verdict(is_acceptable, it) ==
    IF is_acceptable THEN "accept"
    ELSE IF it < MAX_RESEARCH_ITERATIONS THEN "refine"
    ELSE "exhausted"

\* lines 118-153: the status event of the branch
RunVerdict(h) ==
    /\ NoEnded
    /\ pc[h] = "R113"
    /\ LET v == Verdict(evaluation[h].is_acceptable, iteration[h]) IN
       CASE v = "accept" -> Status(h, "Report meets quality standards", iteration[h], "R119")
         [] v = "refine" -> Status(h, "Report needs improvement", iteration[h], "R124")
         [] OTHER -> Status(h, "Max iterations reached", iteration[h], "R150")
    /\ UNCHANGED <<planned, rvars, svars, lvars, calls, failure>>

\* lines 134-136: _plan_refinement_searches is called
PlanRefinementSearches(h) ==
    /\ NoEnded
    /\ pc[h] = "R124"
    /\ LogCall(h, Call("refinement_plan", iteration[h], 0, all_search_results[h],
                       evaluation[h], NoneReport))
    /\ Goto(h, "await_refinement_plan")
    /\ UNCHANGED <<state, chat_history, submits, planned, hvars, rvars, svars, lvars, events, failure>>

\* lines 137-140: the refinement plan has n items
RefinementPlanReturn(h, n) ==
    /\ NoEnded
    /\ pc[h] = "await_refinement_plan"
    /\ search_plan' = [search_plan EXCEPT ![h] = n]
    /\ planned' = planned + n
    /\ batch' = [batch EXCEPT ![h] = @ + 1]
    /\ Status(h, "Executing additional searches", n, "R137")
    /\ UNCHANGED <<enriched_query, all_search_results, report, previous_evaluation,
                   evaluation, iteration, svars, lvars, calls, failure>>

RefinementPlanRaise(h) ==
    /\ NoEnded
    /\ pc[h] = "await_refinement_plan"
    /\ Raise(h, "refinement_plan")
    /\ UNCHANGED <<state, chat_history, submits, planned, hvars, rvars, svars, lvars, events, calls>>

\* ------------------------------------------------- delivery and the result
\* line 156, after the break of line 120 or the end of the loop
RunSending(h) ==
    /\ NoEnded
    /\ LoopOver(h)
    /\ Status(h, "Sending report via email", 0, "R156")
    /\ UNCHANGED <<planned, rvars, svars, lvars, calls, failure>>

\* line 157: _send_email is called
SendEmail(h) ==
    /\ NoEnded
    /\ pc[h] = "R156"
    /\ LogCall(h, Call("email", iteration[h], 0, <<>>, NoneEvaluation, report[h]))
    /\ Goto(h, "await_email")
    /\ UNCHANGED <<state, chat_history, submits, planned, hvars, rvars, svars, lvars, events, failure>>

\* lines 158 and 278-279: Runner.run returned; what it returned is dropped,
\* whether the agent sent the mail or reported that it could not
SendEmailReturn(h, sent) ==
    /\ NoEnded
    /\ pc[h] = "await_email"
    /\ failure' = [failure EXCEPT ![h] = IF sent THEN "none" ELSE "email_not_sent"]
    /\ Status(h, "Email sent! Research complete", 0, "R158")
    /\ UNCHANGED <<planned, rvars, svars, lvars, calls>>

\* line 278: Runner.run raised
SendEmailRaise(h) ==
    /\ NoEnded
    /\ pc[h] = "await_email"
    /\ Raise(h, "email")
    /\ UNCHANGED <<state, chat_history, submits, planned, hvars, rvars, svars, lvars, events, calls>>

\* lines 161 and 162 in the other order
TerminalSwapped(final) == << FollowUpEvent(final), ReportEvent(final) >>

\* lines 160-162: the two events that end run
Terminal(final) == << ReportEvent(final), FollowUpEvent(final) >>

\* line 161 and lines 71-78
RunReport(h) ==
    /\ NoEnded
    /\ pc[h] = "R158"
    /\ HandleUpdate(h, Terminal(report[h])[1])
    /\ Goto(h, "R161")
    /\ UNCHANGED <<planned, rvars, svars, lvars, calls, failure>>

\* line 162 and lines 80-88
RunFollowUp(h) ==
    /\ NoEnded
    /\ pc[h] = "R161"
    /\ HandleUpdate(h, Terminal(report[h])[2])
    /\ Goto(h, "R162")
    /\ UNCHANGED <<planned, rvars, svars, lvars, calls, failure>>

\* run is exhausted and handle_submit returns
RunEnd(h) ==
    /\ NoEnded
    /\ pc[h] = "R162"
    /\ Goto(h, "returned")
    /\ UNCHANGED <<state, chat_history, submits, planned, hvars, rvars, svars, lvars, events, calls, failure>>

\* --------------------------------------------------------------------- Next
\* Messages of a session are processed one at a time, by the first listener.
OneAtATime(h) == \A g \in Handlers : pc[g] = "free" /\ h <= g

\* what an invocation of handler h does once it has begun, and its release;
\* the planner agents return plans with a size in sizes
Progress(h, sizes) ==
    \/ Return(h)
    \/ Clarify(h)
    \/ ClarifyReturn(h)
    \/ ClarifyRaise(h)
    \/ Release(h)
    \/ RunTrace(h)
    \/ RunPlanning(h)
    \/ PlanSearches(h)
    \/ \E n \in sizes : PlanReturn(h, n)
    \/ PlanRaise(h)
    \/ RunExecuting(h)
    \/ PerformSearches(h)
    \/ \E i \in 1..(MaxPlan + 1), ok \in BOOLEAN : SearchDone(h, i, ok)
    \/ Gather(h)
    \/ RunWriting(h)
    \/ WriteReport(h)
    \/ WriteReturn(h)
    \/ WriteRaise(h)
    \/ EvaluateReport(h)
    \/ \E acceptable \in BOOLEAN : EvaluateReturn(h, acceptable)
    \/ EvaluateRaise(h)
    \/ RunVerdict(h)
    \/ PlanRefinementSearches(h)
    \/ \E n \in sizes : RefinementPlanReturn(h, n)
    \/ RefinementPlanRaise(h)
    \/ RunSending(h)
    \/ SendEmail(h)
    \/ \E sent \in BOOLEAN : SendEmailReturn(h, sent)
    \/ SendEmailRaise(h)
    \/ RunReport(h)
    \/ RunFollowUp(h)
    \/ RunEnd(h)

Next ==
    \E h \in Handlers :
        \/ \E m \in Messages :
              submits < MaxSubmits /\ OneAtATime(h) /\ HandleSubmit(h, m)
        \/ Progress(h, PlanSizes)

Spec == Init /\ [][Next]_vars

\* ---------------------------------------------------------------- fairness
\* The event loop resumes every invocation that can go on: an external call
\* that was made comes back (it returns or raises), a finished task is
\* handed over, and the consumer asks for the next event.
FairPlanSizes == 0 .. Min(MaxPlan, MaxFairSearches - planned)

NextFair ==
    \E h \in Handlers :
        \/ \E m \in Messages :
              submits < MaxFairSubmits /\ OneAtATime(h) /\ HandleSubmit(h, m)
        \/ Progress(h, FairPlanSizes)

FairSpec ==
    /\ Init
    /\ [][NextFair]_vars
    /\ \A h \in Handlers : WF_vars(Progress(h, FairPlanSizes))

\* ------------------------------------------------------------ abandonment
\* The consumer of handle_submit stops at a suspension point: the invocation
\* is cancelled where it is suspended, and the frames of handle_submit, run
\* and _perform_searches are unwound.  Nothing in lines 196-209 cancels the
\* tasks made by asyncio.create_task: they stay as they are.
Abandon(h) ==
    /\ NoEnded
    /\ pc[h] # "free"
    /\ Goto(h, "abandoned")
    /\ user_message' = [user_message EXCEPT ![h] = <<>>]
    /\ clarification_answers' = [clarification_answers EXCEPT ![h] = <<>>]
    /\ status_messages' = [status_messages EXCEPT ![h] = <<>>]
    /\ enriched_query' = [enriched_query EXCEPT ![h] = <<>>]
    /\ search_plan' = [search_plan EXCEPT ![h] = 0]
    /\ all_search_results' = [all_search_results EXCEPT ![h] = <<>>]
    /\ report' = [report EXCEPT ![h] = NoneReport]
    /\ previous_evaluation' = [previous_evaluation EXCEPT ![h] = NoneEvaluation]
    /\ evaluation' = [evaluation EXCEPT ![h] = NoneEvaluation]
    /\ iteration' = [iteration EXCEPT ![h] = 0]
    /\ batch' = [batch EXCEPT ![h] = 0]
    /\ completed' = [completed EXCEPT ![h] = <<>>]
    /\ results' = [results EXCEPT ![h] = <<>>]
    /\ events' = [events EXCEPT ![h] = <<>>]
    /\ calls' = [calls EXCEPT ![h] = <<>>]
    /\ evaluations' = [evaluations EXCEPT ![h] = <<>>]
    /\ search_log' = [search_log EXCEPT ![h] = <<>>]
    /\ UNCHANGED <<state, chat_history, submits, planned, tasks, prompt_view, failure>>

NextAbandon == Next \/ \E h \in Handlers : Abandon(h)

SpecAbandon == Init /\ [][NextAbandon]_vars

\* ------------------------------------------------- overlapping invocations
\* The two listeners share the session state, and an invocation of one may
\* begin while an invocation of the other is suspended at a yield or an await.
\* The listeners run the same function: the free one with the lower number
\* takes the message.
FirstFree(h) == pc[h] = "free" /\ \A g \in Handlers : g < h => pc[g] # "free"

\* the suspension points of handle_submit before line 63 has called run
BeforeRun == {"free", "L16", "L30", "await_clarify", "L43", "L59"}

\* handler h is in its async for over run
InRun(h) == pc[h] \notin BeforeRun \cup Ended

\* run of handler h has begun and has not yet yielded its follow_up event
RunActive(h) == InRun(h) /\ pc[h] # "R162"

\* Overlaps are followed up to the state in which both handlers are in a run.
TwoRuns == \A h \in Handlers : InRun(h)

\* The plan sizes a planner agent may return when invocations overlap.
OverlapPlanSizes == 0 .. Min(MaxPlan, MaxOverlapSearches - planned)

NextOverlap ==
    \E h \in Handlers :
        \/ \E m \in OverlapMessages :
              submits < MaxOverlapSubmits /\ FirstFree(h) /\ HandleSubmit(h, m)
        \/ ~TwoRuns /\ Progress(h, OverlapPlanSizes)

SpecOverlap == Init /\ [][NextOverlap]_vars

\* ---------------------------------------------------------- prompt views
\* A text is modelled by its length.  A summary is the sequence of its
\* segments in order: the segment of a result names the position of the
\* result in the list it was taken from, a separator has source 0.

\* the lengths a search summary may have
TextLengths == {0, 700, 2998}

\* the list of search summaries with the lengths f
ViewInput(f) == [i \in DOMAIN f |-> [batch |-> 1, item |-> i, chars |-> f[i]]]

\* list[:n]
Take(list, n) == SubSeq(list, 1, Min(n, Len(list)))

\* "\n---\n".join(texts)
Join(texts) ==
    IF texts = <<>> THEN <<>>
    ELSE [k \in 1..(2 * Len(texts) - 1) |->
            IF k % 2 = 1
            THEN [source |-> (k + 1) \div 2, chars |-> texts[(k + 1) \div 2].chars]
            ELSE [source |-> 0, chars |-> SEPARATOR_CHARS]]

\* text[:cap]
RECURSIVE Cut(_, _)
Cut(segments, cap) ==
    IF segments = <<>> \/ cap = 0 THEN <<>>
    ELSE IF Head(segments).chars >= cap
         THEN << [Head(segments) EXCEPT !.chars = cap] >>
         ELSE <<Head(segments)>> \o Cut(Tail(segments), cap - Head(segments).chars)

\* the number of characters of a summary
RECURSIVE Chars(_)
Chars(segments) ==
    IF segments = <<>> THEN 0 ELSE Head(segments).chars + Chars(Tail(segments))

\* the positions of the results a summary holds text of
Sources(segments) ==
    { segments[k].source : k \in DOMAIN segments } \ {0}

\* line 261 without the slice: the whole of search_summary goes into the prompt
EvaluateViewUncut(search_results) ==
    Join(Take(search_results, EVALUATE_VIEW_RESULTS))

\* lines 257 and 261: search_summary[:5000] of the first 8 results joined
EvaluateView(search_results) ==
    Cut(Join(Take(search_results, EVALUATE_VIEW_RESULTS)), EVALUATE_VIEW_CHARS)

\* lines 181 and 189: existing_summary[:3000] of the first 5 results joined
RefinementView(existing_results) ==
    Cut(Join(Take(existing_results, REFINEMENT_VIEW_RESULTS)), REFINEMENT_VIEW_CHARS)

\* a run holding any of the lists of summaries, no view built yet
InitViews ==
    /\ state = [phase |-> "idle", query |-> NoQuery, questions |-> NoQuery]
    /\ chat_history = <<>>
    /\ submits = 0
    /\ planned = 0
    /\ pc = [h \in Handlers |-> "free"]
    /\ user_message = [h \in Handlers |-> <<>>]
    /\ clarification_answers = [h \in Handlers |-> <<>>]
    /\ status_messages = [h \in Handlers |-> <<>>]
    /\ enriched_query = [h \in Handlers |-> <<>>]
    /\ search_plan = [h \in Handlers |-> 0]
    /\ \E k \in 0..MaxViewResults :
          \E f \in [1..k -> TextLengths] :
              all_search_results = [h \in Handlers |-> ViewInput(f)]
    /\ report = [h \in Handlers |-> NoneReport]
    /\ previous_evaluation = [h \in Handlers |-> NoneEvaluation]
    /\ evaluation = [h \in Handlers |-> NoneEvaluation]
    /\ iteration = [h \in Handlers |-> 0]
    /\ batch = [h \in Handlers |-> 0]
    /\ tasks = [h \in Handlers |-> <<>>]
    /\ completed = [h \in Handlers |-> <<>>]
    /\ results = [h \in Handlers |-> <<>>]
    /\ events = [h \in Handlers |-> <<>>]
    /\ calls = [h \in Handlers |-> <<>>]
    /\ evaluations = [h \in Handlers |-> <<>>]
    /\ search_log = [h \in Handlers |-> <<>>]
    /\ prompt_view = NoView
    /\ failure = [h \in Handlers |-> "none"]

\* lines 257-262: _evaluate_report builds the summary of its prompt
BuildEvaluateView(h) ==
    /\ prompt_view = NoView
    /\ prompt_view' = [kind |-> "evaluate",
                       segments |-> EvaluateView(all_search_results[h])]
    /\ UNCHANGED <<state, chat_history, submits, planned, pc, hvars, rvars, svars,
                   events, calls, evaluations, search_log, failure>>

\* lines 181-190: _plan_refinement_searches builds the summary of its prompt
BuildRefinementView(h) ==
    /\ prompt_view = NoView
    /\ prompt_view' = [kind |-> "refinement",
                       segments |-> RefinementView(all_search_results[h])]
    /\ UNCHANGED <<state, chat_history, submits, planned, pc, hvars, rvars, svars,
                   events, calls, evaluations, search_log, failure>>

NextViews ==
    \E h \in Handlers :
        \/ BuildEvaluateView(h)
        \/ BuildRefinementView(h)

SpecViews == InitViews /\ [][NextViews]_vars

\* --------------------------------------------------------------- properties
Indices(log, kind) == {k \in DOMAIN log : log[k].kind = kind}
CallCount(h, kind) == Cardinality(Indices(calls[h], kind))
Largest(S) == CHOOSE k \in S : \A j \in S : j <= k
After(log, k) == SubSeq(log, k + 1, Len(log))
EventIndices(h, type) == {k \in DOMAIN events[h] : events[h][k].type = type}
HasStatus(h, content) ==
    \E k \in EventIndices(h, "status") : events[h][k].content = content
\* run of handler h has yielded its last event
Completed(h) == pc[h] \in {"R162", "returned"} /\ events[h] # <<>>
\* the search batches run of handler h has started
Batches(h) == CallCount(h, "search_batch")
\* the searches of the latest batch that returned a text / that raised
Succeeded(h) == {k \in DOMAIN search_log[h] :
                    search_log[h][k].batch = Batches(h) /\ search_log[h][k].ok}
Failed(h) == {k \in DOMAIN search_log[h] :
                 search_log[h][k].batch = Batches(h) /\ ~search_log[h][k].ok}
\* _perform_searches has been called and is not in progress
BatchReturned(h) == Batches(h) >= 1 /\ pc[h] # "searching"

\* C1: a run makes at most MAX_RESEARCH_ITERATIONS = 3 calls of _write_report,
\* whatever the evaluation verdicts and the search outcomes.
C1_WriteCallsBounded ==
    \A h \in Handlers : CallCount(h, "write") <= MAX_RESEARCH_ITERATIONS

C1_Witness ==
    \E h \in Handlers :
        /\ pc[h] = "returned"
        /\ CallCount(h, "write") = MAX_RESEARCH_ITERATIONS

\* C2: after an evaluation with is_acceptable = true at iteration i, the run
\* makes no write call, no refinement-plan request and no search batch; the
\* only call it still makes is the delivery call, with the report of iteration i.
C2_AcceptanceEndsLoop ==
    \A h \in Handlers : \A k \in DOMAIN evaluations[h] :
        evaluations[h][k].is_acceptable =>
            LET i == evaluations[h][k].iteration
                e == CHOOSE j \in Indices(calls[h], "evaluate") : calls[h][j].iteration = i
                after == After(calls[h], e)
            IN  /\ calls[h][e].report = [draft |-> i]
                /\ Len(after) <= 1
                /\ \A j \in DOMAIN after :
                      /\ after[j].kind = "email"
                      /\ after[j].report = [draft |-> i]

C2_Witness ==
    \E h \in Handlers :
        /\ pc[h] = "returned"
        /\ Len(evaluations[h]) = 2
        /\ evaluations[h][2].is_acceptable
        /\ CallCount(h, "email") = 1

\* C3: when the evaluations of iterations 1, 2 and 3 are all not acceptable,
\* the run makes no 4th write call and no refinement plan or search batch at
\* iteration 3, yields the status "Max iterations reached", and then calls
\* the delivery with the report written at iteration 3.
AllRejected(h) ==
    /\ Len(evaluations[h]) >= MAX_RESEARCH_ITERATIONS
    /\ \A k \in 1..MAX_RESEARCH_ITERATIONS : ~evaluations[h][k].is_acceptable

C3_BudgetExhausted ==
    \A h \in Handlers :
        AllRejected(h) =>
            LET e == Largest(Indices(calls[h], "evaluate"))
                after == After(calls[h], e)
            IN  /\ CallCount(h, "write") = MAX_RESEARCH_ITERATIONS
                /\ \A j \in Indices(calls[h], "refinement_plan")
                          \cup Indices(calls[h], "search_batch") :
                      calls[h][j].iteration < MAX_RESEARCH_ITERATIONS
                /\ pc[h] # "R113" => HasStatus(h, "Max iterations reached")
                /\ Len(after) <= 1
                /\ \A j \in DOMAIN after :
                      /\ after[j].kind = "email"
                      /\ after[j].report = [draft |-> MAX_RESEARCH_ITERATIONS]
                      /\ HasStatus(h, "Max iterations reached")

C3_Witness ==
    \E h \in Handlers :
        /\ AllRejected(h)
        /\ pc[h] = "returned"
        /\ CallCount(h, "email") = 1

\* C4: when a run has completed, its events hold exactly one report event and
\* exactly one follow_up event; the report event carries the last report
\* written, the follow_up event comes right after it and is the last event,
\* and every other event is a status event before both.
C4_TerminalEvents ==
    \A h \in Handlers :
        Completed(h) =>
            LET ev == events[h]
                n == Len(ev)
            IN  /\ n >= 2
                /\ Cardinality(EventIndices(h, "report")) = 1
                /\ Cardinality(EventIndices(h, "follow_up")) = 1
                /\ ev[n].type = "follow_up"
                /\ ev[n - 1].type = "report"
                /\ \A k \in 1..(n - 2) : ev[k].type = "status"
                /\ Indices(calls[h], "write") # {}
                /\ ev[n - 1].n = calls[h][Largest(Indices(calls[h], "write"))].iteration

C4_Witness ==
    \E h \in Handlers : Completed(h) /\ CallCount(h, "write") = 2

\* C5: when the delivery call fails during a run, a status event reports
\* the failure and the run still yields its report and follow_up events.
DeliveryFailed(h) == failure[h] \in {"email", "email_not_sent"}

ReportsDeliveryFailure(h) ==
    \E k \in EventIndices(h, "status"), j \in EventIndices(h, "status") :
        /\ events[h][j].content = "Sending report via email"
        /\ j < k
        /\ events[h][k].content # "Email sent! Research complete"

C5_DeliveryFailureSurfaced ==
    \A h \in Handlers :
        (DeliveryFailed(h) /\ pc[h] \in Ended) =>
            /\ ReportsDeliveryFailure(h)
            /\ EventIndices(h, "report") # {}
            /\ EventIndices(h, "follow_up") # {}

\* C6: for a plan of N items of which K invocations fail, _perform_searches
\* returns exactly N-K results, the texts of the invocations that succeeded,
\* for every choice of the failing ones and every completion order; it
\* returns only after all N have finished.
C6_SearchBatchCount ==
    \A h \in Handlers :
        BatchReturned(h) =>
            /\ \A i \in DOMAIN tasks[h] : tasks[h][i] = "done"
            /\ completed[h] = <<>>
            /\ Len(tasks[h]) = calls[h][Largest(Indices(calls[h], "search_batch"))].n
            /\ Cardinality(Succeeded(h)) + Cardinality(Failed(h)) = Len(tasks[h])
            /\ Len(results[h]) = Len(tasks[h]) - Cardinality(Failed(h))
            /\ {results[h][k] : k \in DOMAIN results[h]}
                  = {[batch |-> Batches(h), item |-> search_log[h][k].item] : k \in Succeeded(h)}

C6_Witness ==
    \E h \in Handlers :
        /\ BatchReturned(h)
        /\ Len(tasks[h]) = 2
        /\ Cardinality(Failed(h)) = 1
        /\ search_log[h][Largest(Failed(h))].item = 1
        /\ search_log[h][Largest(Succeeded(h))].item = 2
        /\ Largest(Succeeded(h)) < Largest(Failed(h))

\* C7: when every search invocation of a run fails, every batch returns the
\* empty sequence and raises nothing, the write and evaluate calls are made
\* with zero results, and the run that ends yields its report and follow_up
\* events.
NoSearchSucceeded(h) == \A k \in DOMAIN search_log[h] : ~search_log[h][k].ok

C7_AllSearchesFail ==
    \A h \in Handlers :
        NoSearchSucceeded(h) =>
            /\ all_search_results[h] = <<>>
            /\ BatchReturned(h) => results[h] = <<>>
            /\ pc[h] = "raised" => calls[h][Len(calls[h])].kind # "search_batch"
            /\ \A j \in Indices(calls[h], "write") \cup Indices(calls[h], "evaluate") :
                  calls[h][j].results = <<>>
            /\ Completed(h) =>
                  /\ CallCount(h, "write") >= 1
                  /\ CallCount(h, "evaluate") = CallCount(h, "write")
                  /\ EventIndices(h, "report") # {}
                  /\ EventIndices(h, "follow_up") # {}

C7_Witness ==
    \E h \in Handlers :
        /\ NoSearchSucceeded(h)
        /\ Len(search_log[h]) = 2
        /\ Batches(h) = 2
        /\ Completed(h)

\* C8: within one run the accumulated search results never get shorter, and
\* they get longer after every REFINE phase whose refinement plan has at
\* least one search item.
RefineReturns(h) == pc[h] \in {"R137", "searching"} /\ pc'[h] = "R145"

NeverShorter(h) ==
    pc'[h] # "free" => Len(all_search_results'[h]) >= Len(all_search_results[h])

C8_GrowsAfterEveryRefine ==
    [][\A h \in Handlers :
          /\ NeverShorter(h)
          /\ (RefineReturns(h) /\ search_plan[h] >= 1) =>
                Len(all_search_results'[h]) > Len(all_search_results[h])]_vars

\* C8 amended: within one run the accumulated search results never get
\* shorter, and after every REFINE phase they are longer by exactly the
\* number of searches of the refinement batch that succeeded.
C8_GrowsBySuccesses ==
    [][\A h \in Handlers :
          /\ NeverShorter(h)
          /\ RefineReturns(h) =>
                Len(all_search_results'[h])
                    = Len(all_search_results[h]) + Cardinality(Succeeded(h))']_vars

C8_Witness ==
    \E h \in Handlers :
        /\ pc[h] = "R145"
        /\ search_plan[h] >= 1
        /\ Cardinality(Succeeded(h)) = 1
        /\ Len(all_search_results[h]) = 2

\* C9: when a run has completed and handle_submit has presented its report
\* and follow_up events, the session's phase is done.
C9_PhaseDoneAfterRun ==
    \A h \in Handlers : pc[h] = "R162" => state.phase = "done"

\* C9 amended: presenting the report event sets the phase to done, and
\* presenting the follow_up event sets it to idle: once both are presented
\* the phase is idle.
C9_PhaseIdleAfterRun ==
    [][\A h \in Handlers :
          /\ (pc[h] = "R158" /\ pc'[h] = "R161") => state'.phase = "done"
          /\ (pc[h] = "R161" /\ pc'[h] = "R162") => state'.phase = "idle"]_vars

C9_Witness ==
    \E h \in Handlers :
        /\ pc[h] = "R162"
        /\ state.phase = "idle"
        /\ EventIndices(h, "report") # {}
        /\ EventIndices(h, "follow_up") # {}

\* C10: when a reasoning call of a run fails (initial plan, write, evaluate
\* or refinement plan), the run ends with an error status and the phase is
\* idle again; no invocation ends leaving the session in a phase in which no
\* message starts a new query.
ReasoningFailed(h) == failure[h] \in {"plan", "write", "evaluate", "refinement_plan"}

C10_FailureReturnsToIdle ==
    /\ \A h \in Handlers :
          (pc[h] = "raised" /\ ReasoningFailed(h)) => state.phase = "idle"
    /\ (\A h \in Handlers : pc[h] \in Ended \cup {"free"}) => state.phase # "researching"

\* sub occurs in s as a run of consecutive characters
Contains(s, sub) ==
    \E i \in 0..(Len(s) - Len(sub)) : SubSeq(s, i + 1, i + Len(sub)) = sub
\* handler h is in the clarifying branch and its call of run has begun
RunStarted(h) == events[h] # <<>>
\* the message that started the run is "skip" up to case and outer whitespace
IsSkip(m) == Lower(Strip(m)) = SkipLiteral

\* C13: when the clarifying-phase message is "skip" after trimming whitespace
\* and ignoring case, the enriched query of the run is the stored query
\* itself, with no clarification block.
C13_SkipKeepsQuery ==
    \A h \in Handlers :
        (RunStarted(h) /\ IsSkip(user_message[h])) =>
            enriched_query[h] = state.query

C13_Witness ==
    \E h \in Handlers :
        /\ RunStarted(h)
        /\ user_message[h] = <<" ", "S", "k", "I", "p", "\n">>
        /\ state.query = <<"a", " ", "b">>
        /\ CallCount(h, "plan") = 1

\* C14: when the clarifying-phase message is not empty and not "skip", the
\* enriched query of the run contains the stored query and the message, both
\* character for character.
C14_AnswersAndQueryKept ==
    \A h \in Handlers :
        (RunStarted(h) /\ ~IsSkip(user_message[h])) =>
            /\ Strip(user_message[h]) # <<>>
            /\ Contains(enriched_query[h], state.query)
            /\ Contains(enriched_query[h], user_message[h])
            /\ enriched_query[h] # state.query

C14_Witness ==
    \E h \in Handlers :
        /\ RunStarted(h)
        /\ user_message[h] = <<"a", " ", "b">>
        /\ state.query = <<" ", "S", "k", "I", "p", "\n">>
        /\ CallCount(h, "plan") = 1

\* C19: the write call of iteration 1 receives no previous evaluation; the
\* write call of iteration i+1 receives the evaluation returned at iteration
\* i of the same run, not an older one and not none.
C19_PreviousEvaluation ==
    \A h \in Handlers : \A j \in Indices(calls[h], "write") :
        LET it == calls[h][j].iteration
            prev == calls[h][j].previous_evaluation
        IN  IF it = 1
            THEN prev = NoneEvaluation
            ELSE /\ it - 1 \in DOMAIN evaluations[h]
                 /\ evaluations[h][it - 1].iteration = it - 1
                 /\ prev = evaluations[h][it - 1]
                 /\ prev # NoneEvaluation

C19_Witness ==
    \E h \in Handlers :
        /\ CallCount(h, "write") = 3
        /\ calls[h][Largest(Indices(calls[h], "write"))].previous_evaluation
              = [iteration |-> 2, is_acceptable |-> FALSE]

\* the results of the searches of batch b that succeeded, in completion order
SuccessesOf(h, b) ==
    LET Hit(e) == e.batch = b /\ e.ok
        hits == SelectSeq(search_log[h], Hit)
    IN  [k \in 1..Len(hits) |-> [batch |-> b, item |-> hits[k].item]]
\* the write call of iteration it
WriteCall(h, it) ==
    calls[h][CHOOSE j \in Indices(calls[h], "write") : calls[h][j].iteration = it]

\* C20: the results of the refinement batch of iteration i are appended
\* before the write call of iteration i+1: that call receives the whole
\* sequence the write call of iteration i received, unchanged as a prefix,
\* followed by every successful result of the refinement batch.
C20_RefinementAppended ==
    \A h \in Handlers : \A j \in Indices(calls[h], "write") :
        LET it == calls[h][j].iteration IN
        IF it = 1
        THEN calls[h][j].results = SuccessesOf(h, 1)
        ELSE calls[h][j].results
                = WriteCall(h, it - 1).results \o SuccessesOf(h, it)

C20_Witness ==
    \E h \in Handlers :
        /\ CallCount(h, "write") = 2
        /\ WriteCall(h, 1).results = << [batch |-> 1, item |-> 1] >>
        /\ WriteCall(h, 2).results
              = << [batch |-> 1, item |-> 1], [batch |-> 2, item |-> 1] >>

\* handler h is in the idle branch of handle_submit, or has left it
InNewQuery(h) ==
    \/ pc[h] \in {"L30", "await_clarify", "L43"}
    \/ pc[h] \in Ended /\ CallCount(h, "clarify") >= 1
\* handler h has presented the clarifying questions
QuestionsPresented(h) ==
    \/ pc[h] = "L43"
    \/ pc[h] = "returned" /\ CallCount(h, "clarify") >= 1
\* the entries of the chat history from position k on that show questions
QuestionsShownFrom(k) ==
    {j \in DOMAIN chat_history :
        j >= k /\ chat_history[j] = ChatEntry("assistant", "questions")}

\* C12: handling a non-empty message in phase idle stores the message as the
\* query and leaves the phase at clarifying; it makes one clarifying-questions
\* request, never a second one, and once the request has returned the chat
\* ends with the user's message followed by the questions, shown once.
C12_IdleToClarifying ==
    \A h \in Handlers :
        InNewQuery(h) =>
            /\ ~IsBlank(user_message[h])
            /\ state.query = user_message[h]
            /\ state.phase = "clarifying"
            /\ CallCount(h, "clarify") <= 1
            /\ Len(calls[h]) = CallCount(h, "clarify")
            /\ events[h] = <<>>
            /\ LET n == Len(chat_history) IN
               /\ n >= 2
               /\ chat_history[n - 1] = ChatEntry("user", "message")
               /\ IF QuestionsPresented(h)
                  THEN /\ CallCount(h, "clarify") = 1
                       /\ QuestionsShownFrom(n - 1) = {n}
                  ELSE /\ QuestionsShownFrom(n - 1) = {}
                       /\ chat_history[n] = ChatEntry("assistant", "thinking")

C12_Witness ==
    \E h \in Handlers :
        /\ pc[h] = "returned"
        /\ QuestionsPresented(h)
        /\ state.query = <<"a", " ", "b">>
        /\ state.phase = "clarifying"
        /\ Len(chat_history) > 2

\* C11: at most one run of a session is active at any time, whatever the
\* interleaving of the handle_submit invocations on the session state: no
\* run begins while an earlier run has not yet yielded its follow_up event.
C11_OneRunAtATime ==
    Cardinality({h \in Handlers : RunActive(h)}) <= 1

\* the search tasks of handler h that have not finished
Running(h) == {i \in DOMAIN tasks[h] : tasks[h][i] = "pending"}

\* C17: when the consumer abandons a run while a search batch is in flight,
\* every search invocation of the batch is cancelled: no search task of the
\* abandoned run is still running.
C17_AbandonCancelsSearches ==
    \A h \in Handlers : pc[h] = "abandoned" => Running(h) = {}

\* handler h begins an invocation of handle_submit in this step
Begins(h) == pc[h] = "free" /\ pc'[h] # "free"
\* this step of handler h touches neither the session state nor the chat,
\* and h has made no call and received no event of a run
NoEffect(h) ==
    /\ state' = state
    /\ chat_history' = chat_history
    /\ calls'[h] = <<>>
    /\ events'[h] = <<>>

\* C15: in every phase, handling an empty or whitespace-only message leaves
\* the session state and the chat history unchanged, makes no reasoning call
\* and starts no run: the invocation yields once and returns.
C15_BlankIsNoOp ==
    [][\A h \in Handlers :
          /\ (Begins(h) /\ Strip(user_message'[h]) = <<>>) =>
                pc'[h] = "L16" /\ NoEffect(h)
          /\ (pc[h] = "L16" /\ pc'[h] # "L16") =>
                pc'[h] \in {"returned", "abandoned"} /\ NoEffect(h)]_vars

C15_Witness ==
    \E h \in Handlers :
        /\ pc[h] = "L16"
        /\ user_message[h] = <<" ", "\n">>
        /\ state.phase = "done"

\* the step of handler h is the start of a new query with message m
NewQueryEffect(h, m) ==
    /\ state' = [state EXCEPT !.query = m, !.phase = "clarifying"]
    /\ chat_history' = chat_history \o << ChatEntry("user", "message"),
                                          ChatEntry("assistant", "thinking") >>
    /\ pc'[h] = "L30"
    /\ calls'[h] = <<>>

\* C16: in phase done a non-empty message is handled exactly as a new query
\* in phase idle: it replaces the stored query, the phase becomes clarifying,
\* and the invocation goes on to make one clarifying-questions request.
C16_DoneAsIdle ==
    [][\A h \in Handlers :
          /\ (Begins(h) /\ Strip(user_message'[h]) # <<>>
                /\ state.phase \in {"idle", "done"}) =>
                NewQueryEffect(h, user_message'[h])
          /\ (pc[h] = "L30" /\ pc'[h] \notin {"L30", "abandoned"}) =>
                /\ pc'[h] = "await_clarify"
                /\ Len(calls'[h]) = 1
                /\ calls'[h][1].kind = "clarify"]_vars

C16_Witness ==
    \E h \in Handlers :
        LET n == Len(chat_history) IN
        /\ pc[h] = "await_clarify"
        /\ n >= 3
        /\ chat_history[n - 2] = ChatEntry("assistant", "report")
        /\ state.phase = "clarifying"
        /\ state.query = <<" ", "S", "k", "I", "p", "\n">>
        /\ CallCount(h, "clarify") = 1

\* the longest event sequence of a run: 5 events up to the first batch, 6 in
\* an iteration that refines, 4 in the last one, and 4 from the delivery on
MaxEvents == 5 + 6 * (MAX_RESEARCH_ITERATIONS - 1) + 4 + 4

\* C18: provided every external call returns, a run yields finitely many
\* events and in the end its follow_up event, whatever the verdicts: a run
\* that has begun leads to the follow_up event unless a call has raised, and
\* it never holds more than MaxEvents events.
C18_RunTerminates ==
    /\ [](\A h \in Handlers : Len(events[h]) <= MaxEvents)
    /\ \A h \in Handlers :
          (pc[h] = "L59") ~> (pc[h] = "R162" \/ pc[h] = "raised")

C18_Witness ==
    \E h \in Handlers :
        /\ pc[h] = "R162"
        /\ Len(events[h]) = MaxEvents
        /\ events[h][MaxEvents].type = "follow_up"
        /\ AllRejected(h)

\* the labels at which run awaits a reasoning or delivery call
AwaitingCall ==
    {"await_plan", "await_write", "await_evaluate", "await_refinement_plan",
     "await_email"}

\* C21: the phases of a run do not overlap: _perform_searches returns only
\* after every search of its batch has finished, so no search task of the
\* run is in flight while a plan, write, evaluate, refinement-plan or
\* delivery call is in progress, nor at any other point outside the batch.
C21_PhasesDoNotOverlap ==
    \A h \in Handlers :
        /\ pc[h] \in AwaitingCall => Running(h) = {}
        /\ (InRun(h) /\ pc[h] # "searching") =>
              /\ Running(h) = {}
              /\ completed[h] = <<>>

C21_Witness ==
    \E h \in Handlers :
        /\ pc[h] = "await_write"
        /\ Len(tasks[h]) = 2
        /\ Cardinality(Failed(h)) = 1
        /\ Batches(h) = 1

\* the events run of handler h yielded after its j-th call was made and
\* before its next call, or up to now when the j-th call is the latest
EventsAfterCall(h, j) ==
    SubSeq(events[h], calls[h][j].at + 1,
           IF j < Len(calls[h]) THEN calls[h][j + 1].at ELSE Len(events[h]))

\* C22: between any two consecutive external calls of a run (plan, search
\* batch, write, evaluate, refinement plan, delivery) at least one status
\* event is yielded and nothing but status events; the first event after an
\* evaluate call is the status with the scores of that evaluation, ahead of
\* the next call and of the report and follow_up events.
C22_StatusBetweenCalls ==
    \A h \in Handlers : \A j \in DOMAIN calls[h] :
        calls[h][j].kind # "clarify" =>
            LET ev == EventsAfterCall(h, j) IN
            /\ calls[h][j].at >= 1
            /\ events[h][calls[h][j].at].type = "status"
            /\ j < Len(calls[h]) =>
                  /\ Len(ev) >= 1
                  /\ \A k \in DOMAIN ev : ev[k].type = "status"
            /\ (calls[h][j].kind = "evaluate" /\ Len(ev) >= 1) =>
                  ev[1] = StatusEvent("Evaluation scores", calls[h][j].iteration)
            /\ (calls[h][j].kind = "evaluate" /\ pc[h] \notin {"await_evaluate", "raised"}) =>
                  Len(ev) >= 1

C22_Witness ==
    \E h \in Handlers :
        /\ Completed(h)
        /\ CallCount(h, "refinement_plan") = 2
        /\ CallCount(h, "search_batch") = 3
        /\ CallCount(h, "email") = 1


\* C23: the summary built for the evaluation holds text of the first 8
\* results only and at most 5000 characters, the summary built for the
\* refinement planning holds text of the first 8 results only and at most
\* 3000 characters, and building either leaves the accumulated results as
\* they were.
C23_ViewsBounded ==
    [][ /\ all_search_results' = all_search_results
        /\ prompt_view'.kind = "evaluate" =>
              /\ Sources(prompt_view'.segments) \subseteq 1..8
              /\ Chars(prompt_view'.segments) <= 5000
        /\ prompt_view'.kind = "refinement" =>
              /\ Sources(prompt_view'.segments) \subseteq 1..8
              /\ Chars(prompt_view'.segments) <= 3000 ]_vars

\* an evaluation summary was built from more than 8 results whose first 8
\* are longer than 5000 characters together, and was cut
C23_Witness ==
    /\ Len(all_search_results[1]) > 8
    /\ Chars(Join(Take(all_search_results[1], 8))) > 5000
    /\ prompt_view.kind = "evaluate"
    /\ Chars(prompt_view.segments) = 5000


\* C24: the phase is researching, or a run has started, only when the
\* clarifying questions for the stored query have been presented; a failed
\* clarifying-questions request and a message arriving while the request is
\* in flight are no exceptions.
C24_QuestionsBeforeResearch ==
    (state.phase = "researching" \/ \E h \in Handlers : InRun(h))
        => /\ state.questions = state.query
           /\ QuestionsShownFrom(1) # {}


\* the refinement plans requested and the refinement batches started by the
\* run of handler h
RefinementPlans(h) == CallCount(h, "refinement_plan")
RefinementBatches(h) == IF Batches(h) = 0 THEN 0 ELSE Batches(h) - 1
\* the run of handler h has reached its first WRITE and has ended, by
\* returning or by a failing call
RunOver(h) ==
    /\ CallCount(h, "write") >= 1
    /\ pc[h] \in {"returned", "raised"}
\* every refinement batch of the run is followed by the WRITE of the next
\* iteration, whose results end with the successes of the batch
RefinementsWritten(h) ==
    \A j \in Indices(calls[h], "search_batch") :
        calls[h][j].iteration >= 1 =>
            \E k \in Indices(calls[h], "write") :
                /\ k > j
                /\ calls[h][k].iteration = calls[h][j].iteration + 1
                /\ LET new == SuccessesOf(h, calls[h][k].iteration)
                       all == calls[h][k].results
                   IN  /\ Len(all) >= Len(new)
                       /\ SubSeq(all, Len(all) - Len(new) + 1, Len(all)) = new

C25_WitnessFailedPlan ==
    \E h \in Handlers :
        /\ pc[h] = "raised"
        /\ failure[h] = "refinement_plan"
        /\ RefinementPlans(h) = 2

====
